---- MODULE Spec2Model ----
(***************************************************************************)
(* The client-side cart synchronisation engine of La Patisserie: the       *)
(* useCart hook (guest cart in localStorage, authenticated cart in the     *)
(* redux store, the short-lived cache envelope), the CartService gateway   *)
(* with its request throttle, and the server it talks to.                  *)
(*                                                                         *)
(* A cart item is modelled by the two fields the engine computes with,     *)
(* productId and quantity; name, price, image, addedAt and productDetails  *)
(* are copied around unchanged by the code and carry no control flow.      *)
(*                                                                         *)
(* Every operation is a function from the record of the mutable state      *)
(* (store, localStorage, network, timers) to the record after it; the      *)
(* field fx of that record is the trace of the side effects the operation  *)
(* performed, in program order.                                            *)
(***************************************************************************)
EXTENDS Integers, Sequences, FiniteSets, TLC

\* ---------------------------------------------------------------- bounds
MaxOps == 2
MaxDeepOps == 3
MaxGuestOps == 4
MaxCalls == 2
MaxQty == 2
MaxVer == 2
MaxCountLen == 3
MaxBackendCount == 2
MaxHintWords == 3
MaxHintNumber == 2
MaxVariants == 2

\* ------------------------------------------------------ program constants
CACHE_DURATION == 30000

Products == {"A", "B"}
Users == {"u1"}
NoUser == "none"
NoId == ""

\* localStorage.getItem gives null for an absent key, else the stored string
None == <<>>
Some(v) == <<v>>

Item(p, q) == [productId |-> p, quantity |-> q]
NoPending == [p \in Products |-> "none"]

\* JSON.stringify / JSON.parse of a cart or an envelope: the text is the
\* tagged value, a text that is not JSON parses to nothing (it throws)
JSONstringify(v) == [text |-> "json", value |-> v]
JSONok(s) == s.text = "json"
JSONparse(s) == s.value

\* Date.now().toString() and parseInt(s, 10)
NumToString(n) == [text |-> "num", value |-> n]
ParseInt(s) == s.value
IsNaN(s) == s.text # "num"

\* a stored string that is neither JSON nor a number
Garbage == [text |-> "garbage", value |-> <<>>]

\* ------------------------------------------------------------- the state
VARIABLES
  user,            \* useAuth().user as of the last render
  items,           \* redux: state.cart.items
  loaded,          \* redux: state.cart.dbCartLoaded
  pending,         \* redux: state.cart.pendingOperations
  cbPending,       \* pendingOperations as captured by the memoised removeFromCart
  dirty,           \* what changed since the last render: "user", "items", "loaded", "pending"
  lsCart,          \* localStorage lapatisserie_cart
  lsCache,         \* localStorage lapatisserie_cart_cache
  lsTs,            \* localStorage lapatisserie_cart_cache_timestamp
  lsEtag,          \* localStorage lapatisserie_cart_etag
  now,             \* Date.now()
  pendingRequests, \* throttle map: product of the key -> timer id, 0 when absent
  timers,          \* timer ids set and neither fired nor cleared
  calls,           \* CartService.updateQuantity calls made so far
  net,             \* requests sent and not yet answered
  server,          \* the server's cart: product -> quantity, 0 when absent
  serverVer,       \* the version the server's ETag names
  adopted,         \* age of the cache envelope the store's cart was taken from, -1 if none
  cacheOwner,      \* the user in whose session the stored cache envelope was written
  fx,              \* side effects of the last step, in program order
  zeroed,          \* products the guest set to quantity 0 and has not added since
  nops,            \* events from outside so far: operations, logins, logouts, clock steps
  limit,           \* how many such events the run explores
  sw,              \* the service worker: its phase, the Cache Storage, its last response
  count,           \* the cartCount memo: its inputs and the value it computed
  egg,             \* the egg resolver: its argument and the value it returned
  variant          \* addToCart's variant index: its inputs, what was sent and stored

vars == <<user, items, loaded, pending, cbPending, dirty, lsCart, lsCache, lsTs,
          lsEtag, now, pendingRequests, timers, calls, net, server,
          serverVer, adopted, cacheOwner, fx, zeroed, nops, limit, sw, count, egg,
          variant>>

\* the state of the cart engine
cartVars == <<user, items, loaded, pending, cbPending, dirty, lsCart, lsCache, lsTs,
              lsEtag, now, pendingRequests, timers, calls, net, server,
              serverVer, adopted, cacheOwner, fx, zeroed, nops, limit>>

\* The mutable state as one record, handed through the operations.
Cur ==
  [user |-> user, items |-> items, loaded |-> loaded, pending |-> pending,
   cbPending |-> cbPending, dirty |-> {}, lsCart |-> lsCart, lsCache |-> lsCache,
   lsTs |-> lsTs, lsEtag |-> lsEtag, now |-> now,
   pendingRequests |-> pendingRequests, timers |-> timers, calls |-> calls,
   net |-> net, server |-> server, serverVer |-> serverVer,
   adopted |-> adopted, cacheOwner |-> cacheOwner, fx |-> <<>>, zeroed |-> zeroed]

Commit(st) ==
  /\ user' = st.user
  /\ items' = st.items
  /\ loaded' = st.loaded
  /\ pending' = st.pending
  /\ cbPending' = st.cbPending
  /\ dirty' = st.dirty
  /\ lsCart' = st.lsCart
  /\ lsCache' = st.lsCache
  /\ lsTs' = st.lsTs
  /\ lsEtag' = st.lsEtag
  /\ now' = st.now
  /\ pendingRequests' = st.pendingRequests
  /\ timers' = st.timers
  /\ calls' = st.calls
  /\ net' = st.net
  /\ server' = st.server
  /\ serverVer' = st.serverVer
  /\ adopted' = st.adopted
  /\ cacheOwner' = st.cacheOwner
  /\ fx' = st.fx
  /\ zeroed' = st.zeroed
  /\ UNCHANGED <<sw, count, egg, variant>>

Fx(st, e) == [st EXCEPT !.fx = Append(@, e)]

\* ------------------------------------------------------- array helpers
\* Array.prototype.findIndex on productId, 1-based; 0 stands for -1
RECURSIVE FindFrom(_, _, _)
FindFrom(cart, p, i) ==
  IF i > Len(cart) THEN 0
  ELSE IF cart[i].productId = p THEN i
  ELSE FindFrom(cart, p, i + 1)

FindIndex(cart, p) == FindFrom(cart, p, 1)

\* Array.prototype.splice(i, 1)
Splice(cart, i) == [k \in 1..(Len(cart) - 1) |-> IF k < i THEN cart[k] ELSE cart[k + 1]]

\* Array.prototype.filter(item => item.productId !== p)
RECURSIVE FilterOut(_, _)
FilterOut(cart, p) ==
  IF cart = <<>> THEN <<>>
  ELSE IF Head(cart).productId # p THEN <<Head(cart)>> \o FilterOut(Tail(cart), p)
  ELSE FilterOut(Tail(cart), p)

\* What the cartCount memo can be given as an item: null, an object with no
\* quantity, an object with a numeric quantity, an object whose quantity
\* cannot be added to a number (the addition throws).
NullItem == [kind |-> "null", quantity |-> 0]
NoQuantityItem == [kind |-> "noQuantity", quantity |-> 0]
ThrowingItem == [kind |-> "throws", quantity |-> 0]
NumberItem(q) == [kind |-> "number", quantity |-> q]

\* cartItems.reduce((total, item) => { if (!item) return total;
\*                                    return total + (item.quantity || 0); }, 0)
RECURSIVE SumQty(_)
SumQty(list) ==
  IF list = <<>> THEN 0
  ELSE (IF Head(list).kind = "number" THEN Head(list).quantity ELSE 0)
       + SumQty(Tail(list))

\* the reduce throws
SumThrows(list) == \E i \in 1..Len(list) : list[i].kind = "throws"

\* the count taken from the server-reported counter
cartCountMemo_Backend(cartItems, backendCartCount) == backendCartCount

\* the useMemo of cartCount
cartCountMemo(cartItems, backendCartCount) ==
  IF ~cartItems.isArray THEN 0
  ELSE IF SumThrows(cartItems.list) THEN backendCartCount
  ELSE SumQty(cartItems.list)

\* the items of the store as the memo sees them
ArrayOf(cart) ==
  [isArray |-> TRUE, list |-> [i \in 1..Len(cart) |-> NumberItem(cart[i].quantity)]]

cartCount(cart) == cartCountMemo(ArrayOf(cart), 0)

\* ------------------------------------------------------- the egg resolver
\* A string is the sequence of its characters.
\* String.prototype.includes
StrIncludes(str, pat) ==
  \E i \in 0..(Len(str) - Len(pat)) : SubSeq(str, i + 1, i + Len(pat)) = pat

\* String.prototype.trim
RECURSIVE TrimStart(_)
TrimStart(str) == IF str # <<>> /\ Head(str) = " " THEN TrimStart(Tail(str)) ELSE str

RECURSIVE TrimEnd(_)
TrimEnd(str) ==
  IF str # <<>> /\ str[Len(str)] = " " THEN TrimEnd(SubSeq(str, 1, Len(str) - 1)) ELSE str

Trim(str) == TrimEnd(TrimStart(str))

\* String.prototype.toLowerCase
LowerChar(c) ==
  CASE c = "E" -> "e" [] c = "G" -> "g" [] c = "N" -> "n" [] c = "O" -> "o"
    [] c = "Y" -> "y" [] c = "S" -> "s" [] OTHER -> c

ToLowerCase(str) == [i \in 1..Len(str) |-> LowerChar(str[i])]

\* String(n) of a one-digit number
Digits == <<"0", "1", "2", "3", "4", "5", "6", "7", "8", "9">>
NumberToString(n) == <<Digits[n + 1]>>

\* the values a hint can have
Undefined == [kind |-> "undefined"]
Null == [kind |-> "null"]
Bool(b) == [kind |-> "boolean", b |-> b]
Num(n) == [kind |-> "number", n |-> n]
Str(chars) == [kind |-> "string", chars |-> chars]

\* String(value)
ToStr(value) ==
  CASE value.kind = "string" -> value.chars
    [] value.kind = "number" -> NumberToString(value.n)

TruthyWords == {<<"t", "r", "u", "e">>, <<"y", "e", "s">>, <<"y">>, <<"1">>}
FalsyWords == {<<"f", "a", "l", "s", "e">>, <<"n", "o">>, <<"n">>, <<"0">>}
NegativePatterns ==
  { <<"e", "g", "g", "l", "e", "s", "s">>,
    <<"n", "o", " ", "e", "g", "g">>,
    <<"e", "g", "g", " ", "f", "r", "e", "e">>,
    <<"e", "g", "g", "-", "f", "r", "e", "e">>,
    <<"w", "i", "t", "h", "o", "u", "t", " ", "e", "g", "g">>,
    <<"p", "u", "r", "e", " ", "v", "e", "g">>,
    <<"v", "e", "g", " ", "o", "n", "l", "y">> }
PositivePatterns ==
  { <<"w", "i", "t", "h", " ", "e", "g", "g">>,
    <<"c", "o", "n", "t", "a", "i", "n", "s", " ", "e", "g", "g">>,
    <<"h", "a", "s", " ", "e", "g", "g">>,
    <<"e", "g", "g", "-", "b", "a", "s", "e", "d">>,
    <<"e", "g", "g", " ">> }
EggWord == <<"e", "g", "g">>

\* the resolver with the egg-positive phrases tested before the egg-negative
interpretEggHint_PositiveFirst(value) ==
  IF value.kind \in {"undefined", "null"} THEN None
  ELSE IF value.kind = "boolean" THEN Some(value.b)
  ELSE IF value.kind = "number" /\ value.n = 1 THEN Some(TRUE)
  ELSE IF value.kind = "number" /\ value.n = 0 THEN Some(FALSE)
  ELSE LET normalized == ToLowerCase(Trim(ToStr(value)))
       IN IF normalized = <<>> THEN None
          ELSE IF normalized \in TruthyWords THEN Some(TRUE)
          ELSE IF normalized \in FalsyWords THEN Some(FALSE)
          ELSE IF \E pat \in PositivePatterns : StrIncludes(normalized, pat)
          THEN Some(TRUE)
          ELSE IF \E pat \in NegativePatterns : StrIncludes(normalized, pat)
          THEN Some(FALSE)
          ELSE IF StrIncludes(normalized, EggWord) THEN Some(TRUE)
          ELSE None

\* interpretEggHint: null is None, a boolean b is Some(b)
interpretEggHint(value) ==
  IF value.kind \in {"undefined", "null"} THEN None
  ELSE IF value.kind = "boolean" THEN Some(value.b)
  ELSE IF value.kind = "number" /\ value.n = 1 THEN Some(TRUE)
  ELSE IF value.kind = "number" /\ value.n = 0 THEN Some(FALSE)
  ELSE LET normalized == ToLowerCase(Trim(ToStr(value)))
       IN IF normalized = <<>> THEN None
          ELSE IF normalized \in TruthyWords THEN Some(TRUE)
          ELSE IF normalized \in FalsyWords THEN Some(FALSE)
          ELSE IF \E pat \in NegativePatterns : StrIncludes(normalized, pat)
          THEN Some(FALSE)
          ELSE IF \E pat \in PositivePatterns : StrIncludes(normalized, pat)
          THEN Some(TRUE)
          ELSE IF StrIncludes(normalized, EggWord) THEN Some(TRUE)
          ELSE None

\* An object the resolver reads egg information from: absent (undefined or
\* null), or its fields, named by their path, each with the value it holds.
AbsentSource == [absent |-> TRUE, fields |-> <<>>]
Source(fields) == [absent |-> FALSE, fields |-> fields]

\* source?.a?.b: undefined when a field on the path is missing
Get(source, field) ==
  IF field \in DOMAIN source.fields THEN source.fields[field] ELSE Undefined

\* the candidates of inferEggFlag, in the order of the array
candidates ==
  <<"hasEgg", "importantField.value", "importantField.name", "eggType", "eggLabel",
    "egg", "isEgg", "extraFields.egg", "extraFields.Egg", "extraFields.eggType",
    "extraFields.EggType">>

\* the for loop of inferEggFlag from candidate i on
RECURSIVE FirstInterpreted(_, _)
FirstInterpreted(source, i) ==
  IF i > Len(candidates) THEN None
  ELSE IF interpretEggHint(Get(source, candidates[i])) # None
  THEN interpretEggHint(Get(source, candidates[i]))
  ELSE FirstInterpreted(source, i + 1)

inferEggFlag(source) ==
  IF source.absent THEN None
  ELSE IF Get(source, "hasEgg").kind = "boolean" THEN Some(Get(source, "hasEgg").b)
  ELSE FirstInterpreted(source, 1)

\* A product: absent, or its own fields, its variants (an array or not), its
\* selectedVariant and its productDetails.
AbsentProduct ==
  [absent |-> TRUE, fields |-> <<>>, variants |-> [isArray |-> FALSE, list |-> <<>>],
   selectedVariant |-> AbsentSource, productDetails |-> AbsentSource]

\* product.variants[variantIndex], undefined outside the array
variantFromIndex(product, variantIndex) ==
  IF /\ variantIndex.kind = "number"
     /\ product.variants.isArray
     /\ variantIndex.n + 1 \in 1..Len(product.variants.list)
  THEN product.variants.list[variantIndex.n + 1]
  ELSE AbsentSource

\* variantFromIndex || product?.selectedVariant
selectedVariantOf(product, variantIndex) ==
  IF ~variantFromIndex(product, variantIndex).absent
  THEN variantFromIndex(product, variantIndex)
  ELSE product.selectedVariant

\* the resolver that asks the product before the variant
resolveEggFlag_ProductFirst(product, variantIndex) ==
  IF product.absent THEN None
  ELSE LET variantEgg == inferEggFlag(selectedVariantOf(product, variantIndex))
           directEgg == inferEggFlag(product)
           nestedEgg == inferEggFlag(product.productDetails)
       IN IF directEgg # None THEN directEgg
          ELSE IF variantEgg # None THEN variantEgg
          ELSE IF nestedEgg # None THEN nestedEgg
          ELSE None

resolveEggFlag(product, variantIndex) ==
  IF product.absent THEN None
  ELSE LET variantEgg == inferEggFlag(selectedVariantOf(product, variantIndex))
           directEgg == inferEggFlag(product)
           nestedEgg == inferEggFlag(product.productDetails)
       IN IF variantEgg # None THEN variantEgg
          ELSE IF directEgg # None THEN directEgg
          ELSE IF nestedEgg # None THEN nestedEgg
          ELSE None

\* ------------------------------------------- the variant index of addToCart
\* a number that is not an integer
Float == [kind |-> "float"]

\* Number.isInteger
IsInteger(value) == value.kind = "number"

\* the chain with the previously selected index asked before the product
\* details
candidateVariantIndex_SelectedFirst(variantIndex, product) ==
  IF IsInteger(variantIndex) THEN variantIndex
  ELSE IF IsInteger(Get(product, "selectedVariantIndex"))
  THEN Get(product, "selectedVariantIndex")
  ELSE IF IsInteger(Get(product, "productDetails.variantIndex"))
  THEN Get(product, "productDetails.variantIndex")
  ELSE Null

candidateVariantIndex(variantIndex, product) ==
  IF IsInteger(variantIndex) THEN variantIndex
  ELSE IF IsInteger(Get(product, "productDetails.variantIndex"))
  THEN Get(product, "productDetails.variantIndex")
  ELSE IF IsInteger(Get(product, "selectedVariantIndex"))
  THEN Get(product, "selectedVariantIndex")
  ELSE Null

normalizedVariantIndex(variantIndex, product) ==
  IF IsInteger(candidateVariantIndex(variantIndex, product))
  THEN candidateVariantIndex(variantIndex, product)
  ELSE Num(0)

\* { ...a, ...b }: the fields of b replace those of a
Spread(a, b) == b @@ a

\* the part of addToCart that carries the index: the payload of the network
\* action when there is a user, else the productDetails of the guest entry,
\* spread over those of the entry the product already has
addToCartVariant(v) ==
  LET index == normalizedVariantIndex(v.variantIndex, v.product)
      productDetails == Spread(v.product.fields, "variantIndex" :> index)
  IN IF v.user # NoUser
     THEN [v EXCEPT !.done = TRUE, !.sent = Some([variantIndex |-> index])]
     ELSE [v EXCEPT
             !.done = TRUE,
             !.stored = Some(IF v.entry.absent THEN productDetails
                             ELSE Spread(v.entry.fields, productDetails))]

\* ------------------------------------------------- the cart slice reducers
resetCartState(st) ==
  [Fx(st, "dispatch:resetCartState") EXCEPT
     !.items = <<>>, !.loaded = FALSE, !.pending = NoPending,
     !.adopted = -1,
     !.dirty = @ \cup (IF st.items # <<>> THEN {"items"} ELSE {})
                 \cup (IF st.loaded THEN {"loaded"} ELSE {})
                 \cup (IF st.pending # NoPending THEN {"pending"} ELSE {})]

loadFromLocalStorage(st, cart) ==
  [Fx(st, "dispatch:loadFromLocalStorage") EXCEPT
     !.items = cart, !.dirty = @ \cup {"items"}]

\* Date.now() minus the stored cache timestamp
EnvelopeAge(st) ==
  IF st.lsTs = None \/ IsNaN(st.lsTs[1]) THEN CACHE_DURATION
  ELSE st.now - ParseInt(st.lsTs[1])

loadFromCache(st, env) ==
  [Fx(st, "dispatch:loadFromCache") EXCEPT
     !.items = env.items, !.loaded = TRUE, !.adopted = EnvelopeAge(st),
     !.dirty = @ \cup {"items"} \cup (IF st.loaded THEN {} ELSE {"loaded"})]

\* ------------------------------------------------ local storage utilities
getLocalCart(st) ==
  IF st.lsCart # None /\ JSONok(st.lsCart[1]) THEN JSONparse(st.lsCart[1]) ELSE <<>>

saveToLocalStorage(st, cart) ==
  IF st.user = NoUser
  THEN [Fx(st, "ls:set:cart") EXCEPT !.lsCart = Some(JSONstringify(cart))]
  ELSE st

CacheValid(st) == EnvelopeAge(st) < CACHE_DURATION

getCachedCart(st) ==
  IF st.lsCache # None /\ st.lsTs # None /\ CacheValid(st) /\ JSONok(st.lsCache[1])
  THEN Some(JSONparse(st.lsCache[1]))
  ELSE None

saveToCache(st, data) ==
  [Fx(st, "ls:set:cache") EXCEPT
     !.lsCache = Some(JSONstringify(data)),
     !.lsTs = Some(NumToString(st.now)),
     !.cacheOwner = st.user]

\* ------------------------------------------------------------ the network
Request(id, op, p, q, its, etag, call) ==
  [id |-> id, op |-> op, pid |-> p, qty |-> q, items |-> its, etag |-> etag,
   call |-> call]

\* requests in flight are told apart by a number no other one in flight has
FreshId(st) ==
  CHOOSE i \in 1..(Cardinality(st.net) + 1) :
    /\ \A r \in st.net : r.id # i
    /\ \A j \in 1..(i - 1) : \E r \in st.net : r.id = j

Send(st, op, p, q, its, etag, call) ==
  [Fx(st, "net:" \o op) EXCEPT
     !.net = @ \cup {Request(FreshId(st), op, p, q, its, etag, call)}]

\* ---------------------------------------------------- request throttling
clearTimeout(st, id) == [st EXCEPT !.timers = @ \ {id}]

\* throttleRequest without the clearTimeout of the pending timer
throttleRequest_NoCancel(st, key, id) ==
  [st EXCEPT !.timers = @ \cup {id}, !.pendingRequests[key] = id]

throttleRequest(st, key, id) ==
  LET s1 == IF st.pendingRequests[key] # 0
            THEN clearTimeout(st, st.pendingRequests[key])
            ELSE st
  IN [s1 EXCEPT !.timers = @ \cup {id}, !.pendingRequests[key] = id]

\* ----------------------------------------------------------- CartService
CartService_getCart(st) == Send(st, "GET", NoId, 0, <<>>, st.lsEtag, 0)

CartService_addToCart(st, p, q) == Send(st, "POST", p, q, <<>>, None, 0)

\* the call is recorded with what its request function will send; a call made
\* while the key's timer is still pending supersedes the call that set it
CartService_updateQuantity(st, p, q) ==
  LET id == Len(st.calls) + 1
      old == st.pendingRequests[p]
      rec == [pid |-> p, qty |-> q, superseded |-> FALSE, executed |-> 0]
      s1 == [st EXCEPT !.calls =
               Append(IF old # 0 THEN [@ EXCEPT ![old].superseded = TRUE] ELSE @, rec)]
  IN throttleRequest(Fx(s1, "throttle:updateQuantity"), p, id)

\* the timer callback of throttleRequest with the request function of
\* updateQuantity
timerCallback(st, id) ==
  LET c == st.calls[id]
      s1 == [st EXCEPT !.timers = @ \ {id},
                       !.pendingRequests[c.pid] = 0,
                       !.calls[id].executed = @ + 1]
  IN Send(Fx(s1, "timer"), "PUT", c.pid, c.qty, <<>>, None, id)

CartService_removeFromCart(st, p) == Send(st, "DELETE", p, 0, <<>>, None, 0)

CartService_clearCart(st) == Send(st, "CLEAR", NoId, 0, <<>>, None, 0)

\* --------------------------------------------- the cart slice: thunks
fetchCart(st) == CartService_getCart(Fx(st, "dispatch:fetchCart"))

mergeGuestCart(st, cart) ==
  Send(Fx(st, "dispatch:mergeGuestCart"), "MERGE", NoId, 0, cart, None, 0)

syncLocalCart(st, cart) ==
  Send(Fx(st, "dispatch:syncLocalCart"), "SYNC", NoId, 0, cart, None, 0)

addToCartAction(st, p, q) ==
  CartService_addToCart(Fx(st, "dispatch:addToCart"), p, q)

updateCartQuantity(st, p, q) ==
  CartService_updateQuantity(Fx(st, "dispatch:updateCartQuantity"), p, q)

removeFromCartAction(st, p) ==
  CartService_removeFromCart(Fx(st, "dispatch:removeFromCart"), p)

clearCartAction(st) == CartService_clearCart(Fx(st, "dispatch:clearCart"))

\* --------------------------------- the cart slice: optimistic reducers
\* the change a marker makes to what the next render sees
Marked(st, p, kind) == IF st.pending[p] # kind THEN {"pending"} ELSE {}

addToCartOptimistic(st, p, q) ==
  LET i == FindIndex(st.items, p)
  IN [Fx(st, "dispatch:addToCartOptimistic") EXCEPT
        !.items = IF i > 0 THEN [@ EXCEPT ![i].quantity = @ + q]
                  ELSE Append(@, Item(p, q)),
        !.pending[p] = "adding",
        !.dirty = @ \cup {"items"} \cup Marked(st, p, "adding")]

updateQuantityOptimistic(st, p, q) ==
  LET i == FindIndex(st.items, p)
  IN [Fx(st, "dispatch:updateQuantityOptimistic") EXCEPT
        !.items = IF i > 0 THEN [@ EXCEPT ![i].quantity = q] ELSE @,
        !.pending[p] = "updating",
        !.dirty = @ \cup (IF i > 0 THEN {"items"} ELSE {}) \cup Marked(st, p, "updating")]

removeFromCartOptimistic(st, p) ==
  [Fx(st, "dispatch:removeFromCartOptimistic") EXCEPT
     !.items = FilterOut(@, p),
     !.pending[p] = "removing",
     !.dirty = @ \cup (IF FindIndex(st.items, p) > 0 THEN {"items"} ELSE {})
                 \cup Marked(st, p, "removing")]

\* ------------------------------------------------------------ the effects
\* snap holds the values the render closed over; st is the state the effects
\* of one commit act on, one after the other

resetEffect(snap, st) ==
  IF snap.user = NoUser THEN resetCartState(st) ELSE st

\* the guest key removed at the dispatch of the merge, not after its answer
loadCartMerge_ClearFirst(st, localCart) ==
  [mergeGuestCart(Fx(st, "ls:remove:cart"), localCart) EXCEPT !.lsCart = None]

loadCartMerge(st, localCart) == mergeGuestCart(st, localCart)

\* the cache branch without its return: the effect goes on to the fetch
loadCartFromCache_NoReturn(st, cachedCart) == fetchCart(loadFromCache(st, cachedCart))

loadCartFromCache(st, cachedCart) == loadFromCache(st, cachedCart)

loadCartEffect(snap, st) ==
  IF snap.user # NoUser /\ ~snap.loaded
  THEN LET s1 == Fx(st, "ls:get:cache")
           cachedCart == getCachedCart(s1)
       IN IF cachedCart # None
          THEN loadCartFromCache(s1, cachedCart[1])
          ELSE LET s2 == Fx(s1, "ls:get:cart")
                   localCart == getLocalCart(s2)
               IN IF Len(localCart) > 0
                  THEN loadCartMerge(s2, localCart)
                  ELSE fetchCart(s2)
  ELSE IF snap.user = NoUser
  THEN IF Len(snap.items) = 0
       THEN LET s1 == Fx(st, "ls:get:cart")
                localCart == getLocalCart(s1)
            IN IF Len(localCart) > 0
               THEN loadFromLocalStorage(s1, localCart)
               ELSE s1
       ELSE st
  ELSE st

guestSaveEffect(snap, st) ==
  IF snap.user = NoUser /\ Len(snap.items) > 0
  THEN saveToLocalStorage(st, snap.items)
  ELSE st

cacheEffect(snap, st) ==
  IF snap.user # NoUser /\ Len(snap.items) > 0
  THEN saveToCache(st, [items |-> snap.items, cartCount |-> cartCount(snap.items)])
  ELSE st

\* useCallback(removeFromCart, [user, dispatch, getLocalCart])
memoRemoveFromCart(snap, st, changed) ==
  IF "user" \in changed THEN [st EXCEPT !.cbPending = snap.pending] ELSE st

\* the dependency list of the loadCart effect has changed
loadCartRuns(changed) == changed \cap {"user", "loaded", "items"} # {}

\* one render and the flush of its effects, in the order the hook declares them
renderCommit(snap, changed) ==
  LET s0 == memoRemoveFromCart(snap, Fx(snap, "render"), changed)
      s1 == IF "user" \in changed THEN resetEffect(snap, s0) ELSE s0
      s2 == IF loadCartRuns(changed)
            THEN loadCartEffect(snap, s1) ELSE s1
      s3 == IF changed \cap {"user", "items"} # {}
            THEN guestSaveEffect(snap, s2) ELSE s2
      s4 == IF changed \cap {"user", "items"} # {}
            THEN cacheEffect(snap, s3) ELSE s3
  IN s4

\* ------------------------------------------------------ the cart operations
Toast(st, msg) == Fx(Fx(st, "toast:" \o msg), "throw:" \o msg)

\* the check without its !product._id half
ProductInvalid_NullOnly(product) == product.null

ProductInvalid(product) == product.null \/ product.id = NoId

\* findIndex that finds nothing
ExistingItemIndex_None(localCart, p) == 0

ExistingItemIndex(localCart, p) == FindIndex(localCart, p)

addToCartGuest(st, p, q) ==
  LET s1 == Fx(st, "ls:get:cart")
      localCart == getLocalCart(s1)
      existingItemIndex == ExistingItemIndex(localCart, p)
      newCart == IF existingItemIndex > 0
                 THEN [localCart EXCEPT ![existingItemIndex].quantity = @ + q]
                 ELSE Append(localCart, Item(p, q))
      s2 == [s1 EXCEPT !.zeroed = @ \ {p}]
  IN loadFromLocalStorage(saveToLocalStorage(s2, newCart), newCart)

addToCartChecked(st, product, q) ==
  IF ProductInvalid(product)
  THEN Toast(st, "Invalid product data")
  ELSE IF st.user # NoUser
  THEN addToCartAction(addToCartOptimistic(st, product.id, q), product.id, q)
  ELSE addToCartGuest(st, product.id, q)

addToCart(st, product, q) == addToCartChecked(Fx(st, "call:addToCart"), product, q)

updateQuantityGuest(st, p, q) ==
  LET s1 == Fx(st, "ls:get:cart")
      localCart == getLocalCart(s1)
      itemIndex == FindIndex(localCart, p)
      s2 == [s1 EXCEPT !.zeroed = IF q = 0 THEN @ \cup {p} ELSE @]
  IN IF itemIndex > 0
     THEN loadFromLocalStorage(s2,
            IF q = 0 THEN Splice(localCart, itemIndex)
            ELSE [localCart EXCEPT ![itemIndex].quantity = q])
     ELSE s1

updateQuantity(st, p, q) ==
  LET s0 == Fx(st, "call:updateQuantity")
  IN IF s0.user # NoUser
     THEN updateCartQuantity(updateQuantityOptimistic(s0, p, q), p, q)
     ELSE updateQuantityGuest(s0, p, q)

RemoveInProgress(st, p) == st.cbPending[p] = "removing"

removeFromCartGuest(st, p) ==
  LET s1 == Fx(st, "ls:get:cart")
      updatedCart == FilterOut(getLocalCart(s1), p)
      s2 == [Fx(s1, "ls:set:cart") EXCEPT !.lsCart = Some(JSONstringify(updatedCart))]
  IN loadFromLocalStorage(s2, updatedCart)

removeFromCart(st, p) ==
  LET s0 == Fx(st, "call:removeFromCart")
  IN IF RemoveInProgress(s0, p)
     THEN Fx(s0, "return:remove already in progress")
     ELSE IF s0.user # NoUser
     THEN removeFromCartAction(removeFromCartOptimistic(s0, p), p)
     ELSE removeFromCartGuest(s0, p)

\* the guest path that removes the guest cart key only
clearCartGuest_CartKeyOnly(st) ==
  loadFromLocalStorage([Fx(st, "ls:remove:cart") EXCEPT !.lsCart = None], <<>>)

clearCartGuest(st) ==
  LET s1 == [Fx(st, "ls:remove:cart") EXCEPT !.lsCart = None]
      s2 == [Fx(s1, "ls:remove:cache") EXCEPT !.lsCache = None, !.cacheOwner = NoUser]
      s3 == [Fx(s2, "ls:remove:timestamp") EXCEPT !.lsTs = None]
  IN loadFromLocalStorage(s3, <<>>)

clearCart(st) ==
  LET s0 == Fx(st, "call:clearCart")
  IN IF s0.user # NoUser THEN clearCartAction(s0) ELSE clearCartGuest(s0)

\* ------------------------------------------------------------- the server
ProductSeq == <<"A", "B">>

RECURSIVE ServerItemsFrom(_, _)
ServerItemsFrom(srv, i) ==
  IF i > Len(ProductSeq) THEN <<>>
  ELSE (IF srv[ProductSeq[i]] > 0
        THEN <<Item(ProductSeq[i], srv[ProductSeq[i]])>> ELSE <<>>)
       \o ServerItemsFrom(srv, i + 1)

ServerItems(srv) == ServerItemsFrom(srv, 1)

RECURSIVE MergeInto(_, _)
MergeInto(srv, cart) ==
  IF cart = <<>> THEN srv
  ELSE MergeInto([srv EXCEPT ![Head(cart).productId] = @ + Head(cart).quantity],
                 Tail(cart))

ServerAccepts(srv, r) ==
  CASE r.op = "POST" -> r.qty >= 1
    [] r.op = "PUT" -> r.qty >= 0 /\ srv[r.pid] > 0
    [] r.op = "DELETE" -> srv[r.pid] > 0
    [] r.op \in {"MERGE", "SYNC"} ->
         \A i \in 1..Len(r.items) : r.items[i].quantity >= 1
    [] OTHER -> TRUE

ServerApply(srv, r) ==
  CASE r.op = "POST" -> [srv EXCEPT ![r.pid] = @ + r.qty]
    [] r.op = "PUT" -> [srv EXCEPT ![r.pid] = r.qty]
    [] r.op = "DELETE" -> [srv EXCEPT ![r.pid] = 0]
    [] r.op = "CLEAR" -> [p \in Products |-> 0]
    [] r.op \in {"MERGE", "SYNC"} -> MergeInto(srv, r.items)
    [] OTHER -> srv

NotModified(st, r) == r.op = "GET" /\ r.etag # None /\ r.etag[1] = st.serverVer

\* ------------------------------- the cart slice: fulfilled and rejected
SetsLoaded(op) == op \in {"GET", "MERGE", "SYNC"}

ClearMarker(pend, p) == IF p \in Products THEN [pend EXCEPT ![p] = "none"] ELSE pend

thunkFulfilled(st, r, payloadItems) ==
  [Fx(st, "fulfilled:" \o r.op) EXCEPT
     !.items = payloadItems,
     !.loaded = IF SetsLoaded(r.op) THEN TRUE ELSE @,
     !.pending = ClearMarker(@, r.pid),
     !.dirty = @ \cup {"items"}
                 \cup (IF SetsLoaded(r.op) /\ ~st.loaded THEN {"loaded"} ELSE {})
                 \cup (IF ClearMarker(st.pending, r.pid) # st.pending
                       THEN {"pending"} ELSE {})]

thunkRejected(st, r) ==
  [Fx(st, "rejected:" \o r.op) EXCEPT
     !.pending = ClearMarker(@, r.pid),
     !.dirty = @ \cup (IF ClearMarker(st.pending, r.pid) # st.pending
                       THEN {"pending"} ELSE {})]

\* ------------------------------------------- CartService: the answers
LoginMessage(op) ==
  CASE op = "GET" -> "Please login to view cart"
    [] op = "POST" -> "Please login to add items to cart"
    [] op = "PUT" -> "Please login to update cart"
    [] op = "DELETE" -> "Please login to modify cart"
    [] op = "CLEAR" -> "Please login to clear cart"
    [] OTHER -> "Request failed"

GenericMessage(op) ==
  CASE op = "GET" -> "Failed to fetch cart"
    [] op = "POST" -> "Failed to add item to cart"
    [] op = "PUT" -> "Failed to update quantity"
    [] op = "DELETE" -> "Failed to remove item from cart"
    [] op = "CLEAR" -> "Failed to clear cart"
    [] OTHER -> "Request failed"

\* an error response: its status and the error text of its body, if any
ErrorResponse(status, error) == [status |-> status, error |-> error]

\* the mapping without the 401 test
ErrorMessage_No401(op, resp) ==
  IF resp.error # None THEN resp.error[1] ELSE GenericMessage(op)

\* error.response?.status === 401 ? login message
\*   : error.response?.data?.error || generic message
ErrorMessage(op, resp) ==
  IF resp.status = 401 THEN LoginMessage(op)
  ELSE IF resp.error # None THEN resp.error[1]
  ELSE GenericMessage(op)

\* the methods of CartService; merge and sync are sent by the thunks
GatewayOps == {"GET", "POST", "PUT", "DELETE", "CLEAR"}

\* the gateway call returns, or throws the error with this message
GatewayReturn(st, r) == IF r.op \in GatewayOps THEN Fx(st, "gateway:return") ELSE st

GatewayThrow(st, r, msg) ==
  IF r.op \in GatewayOps THEN Fx(st, "gateway:throw:" \o msg) ELSE st

\* the 304 treated as any other failure
getCartNotModified_Throws(st, r) ==
  thunkRejected(GatewayThrow(st, r, GenericMessage("GET")), r)

\* getCart answered 304: the catch block of getCart
getCartNotModified(st, r) ==
  LET s1 == Fx(st, "ls:get:cache")
  IN IF s1.lsCache # None
     THEN IF JSONok(s1.lsCache[1])
          THEN [thunkFulfilled(Fx(s1, "gateway:return:cached"), r,
                               JSONparse(s1.lsCache[1]).items)
                  EXCEPT !.adopted = EnvelopeAge(s1)]
          ELSE thunkRejected(GatewayThrow(s1, r, "SyntaxError"), r)
     ELSE thunkRejected(GatewayThrow(s1, r, GenericMessage("GET")), r)

\* getCart answered 200
getCartOk(st, r) ==
  LET s1 == [Fx(st, "ls:set:etag") EXCEPT !.lsEtag = Some(st.serverVer)]
  IN [thunkFulfilled(GatewayReturn(s1, r), r, ServerItems(s1.server)) EXCEPT
        !.adopted = -1]

\* the continuation of loadCart after await dispatch(mergeGuestCart(..)).unwrap()
mergeSucceeded(st) == [Fx(st, "ls:remove:cart") EXCEPT !.lsCart = None]

\* the catch block without the fallback
mergeFailed_NoSync(st, localCart) == [Fx(st, "ls:remove:cart") EXCEPT !.lsCart = None]

mergeFailed(st, localCart) ==
  LET s1 == syncLocalCart(st, localCart)
  IN [Fx(s1, "ls:remove:cart") EXCEPT !.lsCart = None]

\* a request answered with success: the server applies it, the thunk is
\* fulfilled with the server's cart and the awaiting code continues
answerOk(st, r) ==
  LET s0 == [st EXCEPT !.net = @ \ {r}]
  IN IF r.op = "GET"
     THEN (IF NotModified(s0, r) THEN getCartNotModified(s0, r) ELSE getCartOk(s0, r))
     ELSE LET s1 == [s0 EXCEPT !.server = ServerApply(@, r), !.serverVer = @ + 1]
              s2 == thunkFulfilled(GatewayReturn(s1, r), r, ServerItems(s1.server))
          IN IF r.op = "MERGE" THEN mergeSucceeded(s2)
             ELSE IF r.op = "SYNC" THEN s2
             ELSE Fx(s2, "return:" \o r.op)

\* the catch blocks without their throw: the operation completes normally
answerError_NoRethrow(st, r, resp) ==
  LET s0 == [st EXCEPT !.net = @ \ {r}]
      s1 == thunkRejected(GatewayThrow(s0, r, ErrorMessage(r.op, resp)), r)
  IN IF r.op = "MERGE" THEN mergeFailed(s1, r.items)
     ELSE IF r.op \in {"SYNC", "GET"} THEN s1
     ELSE IF r.op = "CLEAR" THEN Fx(s1, "throw:" \o ErrorMessage(r.op, resp))
     ELSE Fx(Fx(s1, "toast:" \o ErrorMessage(r.op, resp)), "return:" \o r.op)

\* a request answered with an error status
answerError(st, r, resp) ==
  LET s0 == [st EXCEPT !.net = @ \ {r}]
      s1 == thunkRejected(GatewayThrow(s0, r, ErrorMessage(r.op, resp)), r)
  IN IF r.op = "MERGE" THEN mergeFailed(s1, r.items)
     ELSE IF r.op \in {"SYNC", "GET"} THEN s1
     ELSE IF r.op = "CLEAR" THEN Fx(s1, "throw:" \o ErrorMessage(r.op, resp))
     ELSE Toast(s1, ErrorMessage(r.op, resp))

\* ======================================================= the service worker
\* A URL is the sequence of the segments of its path; String.includes of a
\* pattern made of whole segments is a search for a run of segments.
CACHE_NAME == "la-patisserie-v2"
OFFLINE_URL == <<"offline.html">>
HEADER_CACHE == "header-components-v1"
UI_CACHE == "ui-components-v1"

\* a partition left behind by an earlier version of the worker
OLD_CACHE == "la-patisserie-v1"

urlsToCache ==
  { <<>>, <<"offline.html">>, <<"404.html">>, <<"images", "logo.png">>,
    <<"images", "offline-illustration.png">>, <<"images", "404-illustration.png">>,
    <<"favicon.ico">>, <<"favicon-32x32.png">>, <<"favicon-16x16.png">>,
    <<"manifest.json">> }

headerUICache ==
  { <<"src", "main.jsx">>, <<"src", "App.jsx">>, <<"src", "index.css">>,
    <<"src", "styles", "network-status.css">>,
    <<"src", "components", "Header", "Header.jsx">>,
    <<"src", "components", "Header", "Header.css">>,
    <<"src", "components", "Header", "UserMenu", "UserMenu.jsx">>,
    <<"src", "components", "common", "NetworkStatusBanner.jsx">>,
    <<"src", "components", "common", "OfflinePage.jsx">>,
    <<"src", "context", "LocationContext", "LocationContext.jsx">>,
    <<"src", "context", "HostelContext", "HostelContext.jsx">>,
    <<"src", "hooks", "useAuth.js">>, <<"src", "hooks", "useNetworkStatus.js">>,
    <<"https:", "fonts.googleapis.com", "css2">> }

\* url.startsWith('http')
StartsWithHttp(url) == url # <<>> /\ Head(url) = "https:"

\* the cart resource of the gateway: GET cart and GET count
CartUrls == { <<"api", "newcart">>, <<"api", "newcart", "count">> }

\* pathname.includes(pattern): the pattern's segments occur as a run; a
\* pattern that ends with '/' needs something after the run
Includes(pathname, segs, slashAfter) ==
  \E i \in 1..Len(pathname) :
    /\ i + Len(segs) - 1 <= Len(pathname)
    /\ SubSeq(pathname, i, i + Len(segs) - 1) = segs
    /\ slashAfter => i + Len(segs) - 1 < Len(pathname)

headerPaths ==
  { [segs |-> <<"src", "components", "Header">>, slashAfter |-> TRUE],
    [segs |-> <<"src", "components", "common", "NetworkStatusBanner.jsx">>,
     slashAfter |-> FALSE],
    [segs |-> <<"src", "components", "common", "OfflinePage.jsx">>, slashAfter |-> FALSE],
    [segs |-> <<"src", "context">>, slashAfter |-> TRUE],
    [segs |-> <<"src", "hooks">>, slashAfter |-> TRUE],
    [segs |-> <<"src", "styles">>, slashAfter |-> TRUE],
    [segs |-> <<"src", "main.jsx">>, slashAfter |-> FALSE],
    [segs |-> <<"src", "App.jsx">>, slashAfter |-> FALSE],
    [segs |-> <<"src", "index.css">>, slashAfter |-> FALSE] }

isHeaderComponent(pathname) ==
  \E path \in headerPaths : Includes(pathname, path.segs, path.slashAfter)

isHeaderRelated(pathname) ==
  \/ Includes(pathname, <<"Header">>, TRUE)
  \/ Includes(pathname, <<"UserMenu">>, TRUE)
  \/ Includes(pathname, <<"Header.jsx">>, FALSE)
  \/ Includes(pathname, <<"Header.css">>, FALSE)

\* ---- Cache Storage: the existing partitions, each a set of stored responses
\* the list without the primary partition
validCaches_NoPrimary == {HEADER_CACHE, UI_CACHE}

validCaches == {CACHE_NAME, HEADER_CACHE, UI_CACHE}

\* caches.keys(): the partitions in the order of their creation
CacheOrder == <<OLD_CACHE, CACHE_NAME, HEADER_CACHE, UI_CACHE>>

CacheEntry(url, ver) == [url |-> url, ver |-> ver]

\* Cache Storage with no partition
NoCaches == [c \in {} |-> {}]

\* caches.open(name) creates the partition when there is none
cachesOpen(cs, name) == IF name \in DOMAIN cs THEN cs ELSE cs @@ (name :> {})

\* cache.put(request, response): replaces the response stored for the URL;
\* Cache.put rejects a request whose method is not GET
cachePut(cs, name, req, ver) ==
  LET c1 == cachesOpen(cs, name)
  IN IF req.method = "GET"
     THEN [c1 EXCEPT ![name] = {e \in @ : e.url # req.url} \cup {CacheEntry(req.url, ver)}]
     ELSE c1

\* cache.addAll(urls) after every one of them was fetched
cacheAddAll(cs, name, urls) ==
  [cachesOpen(cs, name) EXCEPT
     ![name] = {e \in @ : e.url \notin urls} \cup {CacheEntry(u, 1) : u \in urls}]

\* cache.match(url) in one partition: the stored response or nothing
cacheMatch(cs, name, url) ==
  IF name \in DOMAIN cs /\ \E e \in cs[name] : e.url = url
  THEN Some((CHOOSE e \in cs[name] : e.url = url).ver)
  ELSE None

RECURSIVE cachesMatchFrom(_, _, _)
cachesMatchFrom(cs, req, i) ==
  IF i > Len(CacheOrder) THEN None
  ELSE IF cacheMatch(cs, CacheOrder[i], req.url) # None
  THEN cacheMatch(cs, CacheOrder[i], req.url)
  ELSE cachesMatchFrom(cs, req, i + 1)

\* caches.match(request): the first partition that holds the URL answers;
\* only a GET request matches
cachesMatch(cs, req) == IF req.method = "GET" THEN cachesMatchFrom(cs, req, 1) ELSE None

\* ---- the worker
NoReply == [url |-> <<>>, method |-> "GET", source |-> "none", status |-> 0, ver |-> 0]

Reply(req, source, status, ver) ==
  [url |-> req.url, method |-> req.method, source |-> source, status |-> status,
   ver |-> ver]

\* the worker's script has been evaluated; cs is what Cache Storage held
SWParsed(cs) == [phase |-> "parsed", caches |-> cs, origin |-> 1, reply |-> NoReply,
                 log |-> <<>>]

\* what the network holds for a URL now: the cart changes, the rest does not
OriginVer(s, url) == IF url \in CartUrls THEN s.origin ELSE 1

\* the install handler; mainOk, headerOk, externalOk: the fetches of the
\* partition succeeded. Promise.all rejects when cache.addAll of the primary
\* or of the header partition rejects; the external fetches are settled one
\* by one and never reject.
swInstall(s, mainOk, headerOk, externalOk) ==
  LET local == {u \in headerUICache : ~StartsWithHttp(u)}
      externalUrls == {u \in headerUICache : StartsWithHttp(u)}
      c0 == cachesOpen(cachesOpen(cachesOpen(s.caches, CACHE_NAME), HEADER_CACHE),
                       UI_CACHE)
      c1 == IF mainOk THEN cacheAddAll(c0, CACHE_NAME, urlsToCache) ELSE c0
      c2 == IF headerOk THEN cacheAddAll(c1, HEADER_CACHE, local) ELSE c1
      c3 == IF externalOk THEN cacheAddAll(c2, UI_CACHE, externalUrls) ELSE c2
  IN [s EXCEPT !.caches = c3,
               !.phase = IF mainOk /\ headerOk THEN "installed" ELSE "redundant",
               !.log = IF mainOk /\ headerOk THEN <<"install", "skipWaiting">>
                       ELSE <<"install", "reject">>]

\* the handler that claims the pages without waiting for the deletions
swActivate_ClaimFirst(s) ==
  LET old == {c \in DOMAIN s.caches : c \notin validCaches}
  IN [s EXCEPT !.caches = [c \in DOMAIN s.caches \ old |-> s.caches[c]],
               !.phase = "activated",
               !.log = <<"activate", "claim">>
                       \o (IF OLD_CACHE \in old THEN <<"delete:la-patisserie-v1">> ELSE <<>>)]

\* the activate handler: the partitions of other versions are deleted, then
\* the open pages are claimed
swActivate(s) ==
  LET old == {c \in DOMAIN s.caches : c \notin validCaches}
  IN [s EXCEPT !.caches = [c \in DOMAIN s.caches \ old |-> s.caches[c]],
               !.phase = "activated",
               !.log = <<"activate">>
                       \o (IF OLD_CACHE \in old THEN <<"delete:la-patisserie-v1">> ELSE <<>>)
                       \o <<"claim">>]

\* the navigate branch of the fetch handler
swFetchNavigate(s, req, answer) ==
  IF answer.ok
  THEN [s EXCEPT !.reply = Reply(req, "network", answer.status, OriginVer(s, req.url))]
  ELSE LET c1 == cachesOpen(s.caches, CACHE_NAME)
           m == cacheMatch(c1, CACHE_NAME, OFFLINE_URL)
       IN [s EXCEPT !.caches = c1,
                    !.reply = IF m # None THEN Reply(req, "offline", 200, m[1])
                              ELSE Reply(req, "none", 0, 0)]

\* the header component branch: cache first, then network
swFetchHeader(s, req, answer) ==
  LET cachedResponse == cachesMatch(s.caches, req)
      cacheToUse == IF isHeaderRelated(req.url) THEN HEADER_CACHE ELSE CACHE_NAME
  IN IF cachedResponse # None
     THEN [s EXCEPT !.reply = Reply(req, "cache", 200, cachedResponse[1])]
     ELSE IF answer.ok
     THEN [s EXCEPT
             !.caches = IF answer.status = 200
                        THEN cachePut(@, cacheToUse, req, OriginVer(s, req.url))
                        ELSE @,
             !.reply = Reply(req, "network", answer.status, OriginVer(s, req.url))]
     ELSE [s EXCEPT !.reply = Reply(req, "generated", 503, 0)]

\* the branch of every other request that is not a document: network first,
\* a 200 answer is stored in the primary partition, a failure is answered
\* from the caches
swFetchOther(s, req, answer) ==
  IF answer.ok
  THEN [s EXCEPT
          !.caches = IF answer.status = 200
                     THEN cachePut(@, CACHE_NAME, req, OriginVer(s, req.url))
                     ELSE @,
          !.reply = Reply(req, "network", answer.status, OriginVer(s, req.url))]
  ELSE LET m == cachesMatch(s.caches, req)
       IN [s EXCEPT !.reply = IF m # None THEN Reply(req, "cache", 200, m[1])
                                ELSE Reply(req, "none", 0, 0)]

\* the fetch handler
swFetch(s, req, answer) ==
  LET s0 == [s EXCEPT !.log = <<"fetch">>]
  IN IF req.mode = "navigate" THEN swFetchNavigate(s0, req, answer)
     ELSE IF isHeaderComponent(req.url) THEN swFetchHeader(s0, req, answer)
     ELSE IF req.destination # "document" THEN swFetchOther(s0, req, answer)
     ELSE [s0 EXCEPT !.reply =
             IF answer.ok THEN Reply(req, "network", answer.status, OriginVer(s, req.url))
             ELSE Reply(req, "none", 0, 0)]

\* the message handler
swMessage(s, type) ==
  [s EXCEPT !.log = IF type = "SKIP_WAITING" THEN <<"message", "skipWaiting">>
                    ELSE <<"message">>]

\* ------------------------------------------------------------ the actions
Quiet == dirty = {}

ProductInputs ==
  {[null |-> FALSE, id |-> p] : p \in Products}
    \cup {[null |-> FALSE, id |-> NoId], [null |-> TRUE, id |-> NoId]}

QtyInputs == 0..MaxQty

\* the quantity argument of addToCart: nothing in the code restricts it
AddQtyInputs == -1..MaxQty

\* the error answers of the server: rejected credential, failure without a
\* text, failure with a text of its own
ErrorResponses ==
  { ErrorResponse(401, None), ErrorResponse(500, None),
    ErrorResponse(400, Some("Insufficient stock available")) }

TickSteps == {CACHE_DURATION - 1, CACHE_DURATION}

CartA == <<Item("A", 1)>>
ServerEmpty == [p \in Products |-> 0]
ServerA == [p \in Products |-> IF p = "A" THEN 1 ELSE 0]

\* The page has just been loaded: the store is in its initial state and the
\* hook is about to render for the first time, with no user yet. localStorage
\* holds what an earlier visit left: nothing, a guest cart, or the cache
\* envelope, timestamp and ETag of an authenticated session.
InitStore ==
  /\ user = NoUser
  /\ items = <<>>
  /\ loaded = FALSE
  /\ pending = NoPending
  /\ cbPending = NoPending
  /\ dirty = {"user", "items", "loaded", "pending"}
  /\ now = 0
  /\ pendingRequests = [p \in Products |-> 0]
  /\ timers = {}
  /\ calls = <<>>
  /\ net = {}
  /\ serverVer = 1
  /\ adopted = -1
  /\ fx = <<>>
  /\ zeroed = {}
  /\ nops = 0

InitStorage ==
  /\ lsCart \in {None, Some(JSONstringify(CartA))}
  /\ \/ /\ lsCache = None
        /\ lsTs = None
        /\ lsEtag = None
        /\ cacheOwner = NoUser
        /\ server \in {ServerEmpty, ServerA}
     \/ /\ lsCache = Some(JSONstringify([items |-> CartA, cartCount |-> 1]))
        /\ lsTs = Some(NumToString(0))
        /\ lsEtag = Some(1)
        /\ cacheOwner = "u1"
        /\ server = ServerA

\* addToCart has not resolved a variant index
NoVariant ==
  [variantIndex |-> Undefined, product |-> Source(<<>>), user |-> NoUser,
   entry |-> AbsentSource, done |-> FALSE, sent |-> None, stored |-> None]

\* the egg resolver has not been called
NoEgg == [value |-> Undefined, done |-> FALSE, result |-> None]

\* the service worker is not installed, no cartCount input is under study
InitIdle ==
  /\ sw = SWParsed(NoCaches)
  /\ count = [cartItems |-> ArrayOf(<<>>), backendCartCount |-> 0, result |-> None]
  /\ egg = NoEgg
  /\ variant = NoVariant

Init == InitStore /\ InitStorage /\ InitIdle /\ limit = MaxOps

Render ==
  /\ dirty # {}
  /\ Commit(renderCommit(Cur, dirty))
  /\ UNCHANGED <<nops, limit>>

\* an event from outside: a call of the UI, the user logging in or out, time
Op(st) ==
  /\ Quiet
  /\ nops < limit
  /\ Commit(st)
  /\ nops' = nops + 1
  /\ UNCHANGED limit

Login(u) ==
  user = NoUser /\ Op([Cur EXCEPT !.user = u, !.dirty = {"user"}, !.zeroed = {}])

Logout == user # NoUser /\ Op([Cur EXCEPT !.user = NoUser, !.dirty = {"user"}])

Tick(d) == Op([Cur EXCEPT !.now = @ + d])

AddToCart(product, q) == Op(addToCart(Cur, product, q))

UpdateQuantity(p, q) == Op(updateQuantity(Cur, p, q))

RemoveFromCart(p) == Op(removeFromCart(Cur, p))

ClearCart == Op(clearCart(Cur))

TimerFires(id) ==
  /\ Quiet
  /\ id \in timers
  /\ Commit(timerCallback(Cur, id))
  /\ UNCHANGED <<nops, limit>>

RespondOk(r) ==
  /\ Quiet
  /\ r \in net
  /\ ServerAccepts(server, r)
  /\ Commit(answerOk(Cur, r))
  /\ UNCHANGED <<nops, limit>>

RespondError(r, resp) ==
  /\ Quiet
  /\ r \in net
  /\ Commit(answerError(Cur, r, resp))
  /\ UNCHANGED <<nops, limit>>

Next ==
  \/ Render
  \/ \E u \in Users : Login(u)
  \/ Logout
  \/ \E d \in TickSteps : Tick(d)
  \/ \E product \in ProductInputs, q \in AddQtyInputs : AddToCart(product, q)
  \/ \E p \in Products, q \in QtyInputs : UpdateQuantity(p, q)
  \/ \E p \in Products : RemoveFromCart(p)
  \/ ClearCart
  \/ \E id \in timers : TimerFires(id)
  \/ \E r \in net : RespondOk(r)
  \/ \E r \in net, resp \in ErrorResponses : RespondError(r, resp)

\* every operation, login, logout and clock step, in any order
Spec == Init /\ [][Next]_vars

\* the same, one event deeper
InitDeep == InitStore /\ InitStorage /\ InitIdle /\ limit = MaxDeepOps

SpecDeep == InitDeep /\ [][Next]_vars

\* ---- two accounts on one browser
AllUsers == {"u1", "u2"}

\* the cart each account has at the server
AccountCart(u) == IF u = "u1" THEN ServerA ELSE ServerEmpty

\* u logs in: from now on the requests carry u's token, and the server
\* answers them from u's cart
LoginAs(u) ==
  /\ user = NoUser
  /\ net = {}
  /\ Op([Cur EXCEPT !.user = u, !.dirty = {"user"}, !.zeroed = {},
                    !.server = AccountCart(u)])

\* a browser with nothing stored
InitUsers ==
  /\ InitStore
  /\ lsCart = None /\ lsCache = None /\ lsTs = None /\ lsEtag = None
  /\ cacheOwner = NoUser
  /\ server = ServerEmpty
  /\ InitIdle
  /\ limit = MaxDeepOps

\* logins and logouts of the two accounts, the clock, the server's answers
NextUsers ==
  \/ Render
  \/ \E u \in AllUsers : LoginAs(u)
  \/ Logout
  \/ \E d \in TickSteps : Tick(d)
  \/ \E r \in net : RespondOk(r)

SpecUsers == InitUsers /\ [][NextUsers]_vars

\* the same operations on a localStorage in which a key holds a string that
\* does not parse: the guest cart, the cache envelope or its timestamp
InitCorruptStorage ==
  /\ \/ /\ lsCart = Some(Garbage)
        /\ lsCache = None /\ lsTs = None /\ lsEtag = None /\ cacheOwner = NoUser
     \/ /\ lsCart = None
        /\ lsCache = Some(Garbage) /\ lsTs = Some(NumToString(0)) /\ lsEtag = Some(1)
        /\ cacheOwner = "u1"
     \/ /\ lsCart = None
        /\ lsCache = Some(JSONstringify([items |-> CartA, cartCount |-> 1]))
        /\ lsTs = Some(Garbage) /\ lsEtag = Some(1)
        /\ cacheOwner = "u1"
  /\ server = ServerA

InitCorrupt == InitStore /\ InitCorruptStorage /\ InitIdle /\ limit = MaxOps

SpecCorrupt == InitCorrupt /\ [][Next]_vars

\* a guest session: the user never logs in
InitGuest == InitStore /\ InitStorage /\ InitIdle /\ limit = MaxGuestOps

NextGuest ==
  \/ Render
  \/ \E product \in ProductInputs, q \in AddQtyInputs : AddToCart(product, q)
  \/ \E p \in Products, q \in QtyInputs : UpdateQuantity(p, q)
  \/ \E p \in Products : RemoveFromCart(p)
  \/ ClearCart

SpecGuest == InitGuest /\ [][NextGuest]_vars

\* an authenticated session in which the quantity of items is changed
InitThrottle == InitStore /\ InitStorage /\ InitIdle /\ limit = MaxCalls + 1

NextThrottle ==
  \/ Render
  \/ \E u \in Users : Login(u)
  \/ \E p \in Products, q \in QtyInputs : user # NoUser /\ UpdateQuantity(p, q)
  \/ \E id \in timers : TimerFires(id)
  \/ \E r \in net : RespondOk(r)
  \/ \E r \in net : RespondError(r, ErrorResponse(500, None))

SpecThrottle == InitThrottle /\ [][NextThrottle]_vars

\* the same session in which what is due happens: a render that is scheduled
\* runs, a timer that is set and not cleared fires, a request that was sent is
\* answered
SpecThrottleLive ==
  /\ SpecThrottle
  /\ WF_vars(Render)
  /\ WF_vars(\E id \in timers : TimerFires(id))
  /\ WF_vars(\E r \in net : RespondOk(r) \/ RespondError(r, ErrorResponse(500, None)))

\* ---- the service worker: events
\* the requests pages make: a navigation, two component sources, the cart
\* calls of the gateway, an image
SWRequests ==
  { [url |-> <<>>, mode |-> "navigate", destination |-> "document", method |-> "GET"],
    [url |-> <<"src", "components", "Header", "Header.jsx">>, mode |-> "cors",
     destination |-> "script", method |-> "GET"],
    [url |-> <<"src", "hooks", "useCart.js">>, mode |-> "cors",
     destination |-> "script", method |-> "GET"],
    [url |-> <<"api", "newcart">>, mode |-> "cors", destination |-> "", method |-> "GET"],
    [url |-> <<"api", "newcart", "count">>, mode |-> "cors", destination |-> "",
     method |-> "GET"],
    [url |-> <<"api", "newcart">>, mode |-> "cors", destination |-> "", method |-> "POST"],
    [url |-> <<"images", "cake.png">>, mode |-> "no-cors", destination |-> "image",
     method |-> "GET"],
    [url |-> <<"offline.html">>, mode |-> "cors", destination |-> "", method |-> "GET"] }

\* what fetch(event.request) gives: a response with a status, or a failure
SWAnswers ==
  { [ok |-> TRUE, status |-> 200], [ok |-> TRUE, status |-> 404],
    [ok |-> FALSE, status |-> 0] }

SWStep(s) == sw' = s /\ UNCHANGED cartVars /\ UNCHANGED <<count, egg, variant>>

SWInstall(mainOk, headerOk, externalOk) ==
  sw.phase = "parsed" /\ SWStep(swInstall(sw, mainOk, headerOk, externalOk))

SWActivate == sw.phase = "installed" /\ SWStep(swActivate(sw))

SWFetch(req, answer) == sw.phase = "activated" /\ SWStep(swFetch(sw, req, answer))

SWMessage(type) ==
  sw.phase \in {"installed", "activated"} /\ SWStep(swMessage(sw, type))

\* the cart changes at the server
SWOriginChanges ==
  sw.origin < MaxVer /\ SWStep([sw EXCEPT !.origin = @ + 1, !.log = <<>>])

InitSW ==
  /\ InitStore
  /\ lsCart = None /\ lsCache = None /\ lsTs = None /\ lsEtag = None
  /\ cacheOwner = NoUser
  /\ server = ServerEmpty
  /\ limit = 0
  /\ sw \in {SWParsed(NoCaches) , SWParsed(OLD_CACHE :> {CacheEntry(<<>>, 1)})}
  /\ count = [cartItems |-> ArrayOf(<<>>), backendCartCount |-> 0, result |-> None]
  /\ egg = NoEgg
  /\ variant = NoVariant

NextSW ==
  \/ \E mainOk \in BOOLEAN, headerOk \in BOOLEAN, externalOk \in BOOLEAN :
       SWInstall(mainOk, headerOk, externalOk)
  \/ SWActivate
  \/ \E req \in SWRequests, answer \in SWAnswers : SWFetch(req, answer)
  \/ \E type \in {"SKIP_WAITING", "OTHER"} : SWMessage(type)
  \/ SWOriginChanges

\* the life of the service worker, from the evaluation of its script
SpecSW == InitSW /\ [][NextSW]_vars

\* ---- the cartCount memo: evaluation
CountItems ==
  {NullItem, NoQuantityItem, ThrowingItem} \cup {NumberItem(q) : q \in 0..MaxQty}

CountLists == UNION {[1..n -> CountItems] : n \in 0..MaxCountLen}

CountInputs ==
  {[isArray |-> TRUE, list |-> l] : l \in CountLists}
    \cup {[isArray |-> FALSE, list |-> <<>>]}

InitCount ==
  /\ InitStore
  /\ lsCart = None /\ lsCache = None /\ lsTs = None /\ lsEtag = None
  /\ cacheOwner = NoUser
  /\ server = ServerEmpty
  /\ limit = 0
  /\ sw = SWParsed(NoCaches)
  /\ count \in [cartItems : CountInputs, backendCartCount : 0..MaxBackendCount,
               result : {None}]
  /\ egg = NoEgg
  /\ variant = NoVariant

\* a render computes the memo from the items and the count of the store
CountEvaluate ==
  /\ count.result = None
  /\ count' = [count EXCEPT
                 !.result = Some(cartCountMemo(count.cartItems, count.backendCartCount))]
  /\ UNCHANGED cartVars
  /\ UNCHANGED <<sw, egg, variant>>

NextCount == CountEvaluate

SpecCount == InitCount /\ [][NextCount]_vars

\* ---- the egg resolver: evaluation
\* the pieces the hints under study are made of
HintWords ==
  { <<"e", "g", "g">>,
    <<"l", "e", "s", "s">>,
    <<"n", "o", " ">>,
    <<"w", "i", "t", "h", " ">>,
    <<" ">>,
    <<"E", "g", "g">>,
    <<"c", "a", "k", "e">>,
    <<"y", "e", "s">>,
    <<"v", "e", "g", " ", "o", "n", "l", "y">> }

RECURSIVE Concat(_)
Concat(ws) == IF ws = <<>> THEN <<>> ELSE Head(ws) \o Concat(Tail(ws))

HintStrings == {Concat(ws) : ws \in UNION {[1..n -> HintWords] : n \in 0..MaxHintWords}}

HintValues ==
  {Undefined, Null, Bool(TRUE), Bool(FALSE)}
    \cup {Num(n) : n \in 0..MaxHintNumber}
    \cup {Str(chars) : chars \in HintStrings}

InitOthersIdle ==
  /\ InitStore
  /\ lsCart = None /\ lsCache = None /\ lsTs = None /\ lsEtag = None
  /\ cacheOwner = NoUser
  /\ server = ServerEmpty
  /\ limit = 0
  /\ sw = SWParsed(NoCaches)
  /\ count = [cartItems |-> ArrayOf(<<>>), backendCartCount |-> 0, result |-> None]
  /\ variant = NoVariant

InitEggHint ==
  /\ InitOthersIdle
  /\ egg \in [value : HintValues, done : {FALSE}, result : {None}]

EggHintEvaluate ==
  /\ ~egg.done
  /\ egg' = [egg EXCEPT !.done = TRUE, !.result = interpretEggHint(egg.value)]
  /\ UNCHANGED cartVars
  /\ UNCHANGED <<sw, count, variant>>

NextEggHint == EggHintEvaluate

SpecEggHint == InitEggHint /\ [][NextEggHint]_vars

\* ---- the egg resolver of a product: evaluation
Eggless == Str(<<"e", "g", "g", "l", "e", "s", "s">>)
WithEgg == Str(<<"w", "i", "t", "h", " ", "e", "g", "g">>)
Cake == Str(<<"c", "a", "k", "e">>)

\* what the product and its productDetails say about egg
ProductSources ==
  {Source(<<>>)}
    \cup {Source(f :> v) : f \in {"hasEgg", "importantField.name", "extraFields.EggType"},
                           v \in {Bool(TRUE), Eggless, Cake}}
    \cup {Source(("hasEgg" :> Cake) @@ ("eggType" :> WithEgg))}

DetailsSources ==
  {AbsentSource, Source(<<>>), Source("hasEgg" :> Bool(TRUE)), Source("egg" :> Eggless)}

\* what a variant says about egg
VariantSources ==
  { Source(<<>>), Source("hasEgg" :> Bool(FALSE)), Source("hasEgg" :> WithEgg),
    Source("eggLabel" :> Cake),
    Source(("hasEgg" :> Bool(FALSE)) @@ ("importantField.value" :> WithEgg)) }

VariantArrays ==
  {[isArray |-> FALSE, list |-> <<>>]}
    \cup {[isArray |-> TRUE, list |-> l] :
            l \in UNION {[1..n -> VariantSources] : n \in 0..MaxVariants}}

EggProducts ==
  {AbsentProduct}
    \cup {[absent |-> FALSE, fields |-> src.fields, variants |-> vs,
           selectedVariant |-> sel, productDetails |-> det] :
            src \in ProductSources, vs \in VariantArrays,
            sel \in {AbsentSource, Source("hasEgg" :> Bool(TRUE)), Source("eggLabel" :> Cake)},
            det \in DetailsSources}

VariantIndexes == {Undefined} \cup {Num(n) : n \in 0..MaxVariants}

InitEggFlag ==
  /\ InitOthersIdle
  /\ egg \in [value : [product : EggProducts, variantIndex : VariantIndexes],
             done : {FALSE}, result : {None}]

EggFlagEvaluate ==
  /\ ~egg.done
  /\ egg' = [egg EXCEPT
               !.done = TRUE,
               !.result = resolveEggFlag(egg.value.product, egg.value.variantIndex)]
  /\ UNCHANGED cartVars
  /\ UNCHANGED <<sw, count, variant>>

NextEggFlag == EggFlagEvaluate

SpecEggFlag == InitEggFlag /\ [][NextEggFlag]_vars

\* ---- the variant index of addToCart: evaluation
\* what can stand where an index is expected
IndexValues == {Undefined, Null, Float, Str(<<"1">>)} \cup {Num(n) : n \in -1..MaxVariants}

VariantProducts ==
  {Source(<<>>)}
    \cup {Source("selectedVariantIndex" :> s) : s \in IndexValues \ {Undefined}}
    \cup {Source("productDetails.variantIndex" :> d) : d \in IndexValues \ {Undefined}}
    \cup {Source(("productDetails.variantIndex" :> d) @@ ("selectedVariantIndex" :> s)) :
            d \in IndexValues \ {Undefined}, s \in IndexValues \ {Undefined}}

\* the entry the guest cart holds for the product: none, or one added with
\* another index
VariantEntries == {AbsentSource} \cup {Source("variantIndex" :> Num(n)) : n \in 0..MaxVariants}

InitVariant ==
  /\ InitStore
  /\ lsCart = None /\ lsCache = None /\ lsTs = None /\ lsEtag = None
  /\ cacheOwner = NoUser
  /\ server = ServerEmpty
  /\ limit = 0
  /\ sw = SWParsed(NoCaches)
  /\ count = [cartItems |-> ArrayOf(<<>>), backendCartCount |-> 0, result |-> None]
  /\ egg = NoEgg
  /\ variant \in [variantIndex : IndexValues, product : VariantProducts,
                 user : {NoUser} \cup Users, entry : VariantEntries,
                 done : {FALSE}, sent : {None}, stored : {None}]

AddToCartVariant ==
  /\ ~variant.done
  /\ variant' = addToCartVariant(variant)
  /\ UNCHANGED cartVars
  /\ UNCHANGED <<sw, count, egg>>

NextVariant == AddToCartVariant

SpecVariant == InitVariant /\ [][NextVariant]_vars

\* ================================================================ claims

CallIds == 1..Len(calls)

PutsOf(c) == {r \in net : r.op = "PUT" /\ r.call = c}

\* C1: of the updateQuantity calls for one productId, each made before the
\* timer of the one before it has fired, only the last one sends a PUT, once,
\* with its own quantity; the request function of a superseded call never runs.
C1_ThrottleLastWins ==
  /\ \A c \in CallIds :
       calls[c].superseded => calls[c].executed = 0 /\ c \notin timers
  /\ \A c \in CallIds :
       ~calls[c].superseded =>
          \/ c \in timers /\ calls[c].executed = 0 /\ pendingRequests[calls[c].pid] = c
          \/ c \notin timers /\ calls[c].executed = 1
  /\ \A r \in net :
       r.op = "PUT" =>
          /\ r.call \in CallIds
          /\ ~calls[r.call].superseded
          /\ r.pid = calls[r.call].pid
          /\ r.qty = calls[r.call].qty
  /\ \A c \in CallIds : Cardinality(PutsOf(c)) <= calls[c].executed

\* a burst of two calls for one product has sent its one PUT, with the
\* quantity of the second call, which differs from that of the first
C1_Witness ==
  \E c \in CallIds, d \in CallIds :
    /\ c < d
    /\ calls[c].pid = calls[d].pid
    /\ calls[c].superseded
    /\ calls[c].qty # calls[d].qty
    /\ calls[d].executed = 1
    /\ \E r \in PutsOf(d) : r.qty = calls[d].qty

\* ---- helpers of the claims
ParsedCart(cell) == IF cell # None /\ JSONok(cell[1]) THEN JSONparse(cell[1]) ELSE <<>>

Has(cart, p) == \E i \in 1..Len(cart) : cart[i].productId = p

NoDup(cart) == \A i, j \in 1..Len(cart) : cart[i].productId = cart[j].productId => i = j

Occurs(f, e) == \E i \in 1..Len(f) : f[i] = e

\* e1 occurs in f, and every e2 in f comes after its first occurrence
Before(f, e1, e2) ==
  \E i \in 1..Len(f) : f[i] = e1 /\ \A k \in 1..Len(f) : f[k] = e2 => k > i

ValidProduct(p) == [null |-> FALSE, id |-> p]

InFlight(op) == {r \in net : r.op = op}

\* C2: a second removeFromCart(X) made while the first removal of X is in
\* flight (marker set, DELETE unanswered) does nothing: no optimistic removal,
\* no second DELETE.
C2_SecondRemoveIsNoOp ==
  [][\A p \in Products :
       (/\ RemoveFromCart(p)
        /\ user # NoUser
        /\ pending[p] = "removing"
        /\ \E r \in InFlight("DELETE") : r.pid = p)
       => (net' = net /\ items' = items /\ pending' = pending)]_vars

\* the mount-time reconciliation finds no fresh envelope and a guest cart
MergeCase ==
  /\ loadCartRuns(dirty)
  /\ user # NoUser
  /\ ~loaded
  /\ getCachedCart(Cur) = None
  /\ Len(getLocalCart(Cur)) > 0

GuestClear == user = NoUser /\ ClearCart

\* C3: with no fresh envelope and a non-empty guest cart the reconciliation
\* dispatches the merge with the guest items and leaves the guest key stored;
\* the key is removed by the reconciliation only in the step that answers the
\* merge, and on success after the merge is fulfilled.
C3_MergeThenClear ==
  [][/\ MergeCase =>
          /\ lsCart' = lsCart
          /\ \E r \in net' \ net : r.op = "MERGE" /\ r.items = getLocalCart(Cur)
     /\ (lsCart # None /\ lsCart' = None /\ ~GuestClear) =>
          \E r \in net \ net' : r.op = "MERGE"
     /\ \A r \in InFlight("MERGE") :
          RespondOk(r) =>
             /\ lsCart' = None
             /\ server' = MergeInto(server, r.items)
             /\ Before(fx', "fulfilled:MERGE", "ls:remove:cart")]_vars

C3_Witness ==
  /\ Occurs(fx, "fulfilled:MERGE")
  /\ Occurs(fx, "ls:remove:cart")
  /\ lsCart = None
  /\ loaded
  /\ Has(items, "A")

\* C4: when the merge fails the engine dispatches the sync with the same guest
\* items and removes the guest key after that; no render removes the key, so
\* it is never removed before the merge has failed.
C4_SyncFallbackThenClear ==
  [][/\ \A r \in InFlight("MERGE") :
          (\E resp \in ErrorResponses : RespondError(r, resp)) =>
             /\ \E s \in net' \ net : s.op = "SYNC" /\ s.items = r.items
             /\ lsCart' = None
             /\ Before(fx', "rejected:MERGE", "dispatch:syncLocalCart")
             /\ Before(fx', "net:SYNC", "ls:remove:cart")
     /\ (dirty # {} /\ lsCart # None) => lsCart' # None]_vars

C4_Witness ==
  /\ Occurs(fx, "rejected:MERGE")
  /\ \E s \in InFlight("SYNC") : s.items = CartA
  /\ lsCart = None

\* C5: no envelope of age 30 s or more becomes the authenticated cart through
\* the mount-time reconciliation.
C5_NoStaleEnvelopeAdopted == adopted < CACHE_DURATION

\* the mount-time reconciliation finds a fresh envelope
CacheCase ==
  /\ loadCartRuns(dirty)
  /\ user # NoUser
  /\ ~loaded
  /\ getCachedCart(Cur) # None

\* C6: with a fresh envelope the reconciliation adopts it and sends nothing:
\* no fetchCart, mergeGuestCart or syncLocalCart, whatever the guest cart is.
C6_FreshCacheNoNetwork ==
  [][CacheCase =>
       /\ net' = net
       /\ items' = getCachedCart(Cur)[1].items
       /\ loaded'
       /\ adopted' < CACHE_DURATION
       /\ lsCart' = lsCart
       /\ ~Occurs(fx', "dispatch:fetchCart")
       /\ ~Occurs(fx', "dispatch:mergeGuestCart")
       /\ ~Occurs(fx', "dispatch:syncLocalCart")]_vars

C6_Witness ==
  /\ Occurs(fx, "dispatch:loadFromCache")
  /\ lsCart # None
  /\ net = {}
  /\ loaded
  /\ items = CartA

\* C7: when the user becomes unauthenticated the reset is dispatched before
\* any read of the guest cart, and after it nothing of the authenticated
\* session is left in the engine: no pending operation, no loaded flag.
C7_ResetBeforeGuestRead ==
  [][(dirty # {} /\ "user" \in dirty /\ user = NoUser) =>
       /\ Before(fx', "dispatch:resetCartState", "ls:get:cart")
       /\ loaded' = FALSE
       /\ pending' = NoPending
       /\ cbPending' = NoPending]_vars

\* C8: a guest addToCart(P, q) adds q to the entry of P when there is one and
\* appends one entry when there is none, so the guest cart, stored and in
\* memory, never holds two entries of one product.
C8_GuestAddOneEntryPerProduct ==
  /\ [](user = NoUser => NoDup(items) /\ NoDup(ParsedCart(lsCart)))
  /\ [][\A p \in Products, q \in 1..MaxQty :
          (user = NoUser /\ AddToCart(ValidProduct(p), q)) =>
             LET old == ParsedCart(lsCart)
                 new == ParsedCart(lsCart')
             IN /\ items' = new
                /\ IF Has(old, p)
                   THEN /\ Len(new) = Len(old)
                        /\ \A i \in 1..Len(old) :
                             new[i] = IF old[i].productId = p
                                      THEN Item(p, old[i].quantity + q)
                                      ELSE old[i]
                   ELSE new = Append(old, Item(p, q))]_vars

C8_Witness ==
  /\ user = NoUser
  /\ Occurs(fx, "call:addToCart")
  /\ ParsedCart(lsCart) = <<Item("A", 3)>>
  /\ items = <<Item("A", 3)>>

\* C9: in the guest path updateQuantity(P, 0) removes the entry of P: once the
\* effects have run P is neither in memory nor in the guest store, until P is
\* added again.
C9_ZeroQuantityRemoves ==
  (Quiet /\ user = NoUser) =>
     \A p \in zeroed : ~Has(items, p) /\ ~Has(ParsedCart(lsCart), p)

\* C10: addToCart of a null product or of one without an identifier fails
\* with the validation error and changes nothing: no dispatch, no request, no
\* write to localStorage.
C10_InvalidProductRejected ==
  [][\A product \in ProductInputs, q \in AddQtyInputs :
       (AddToCart(product, q) /\ (product.null \/ product.id = NoId)) =>
          /\ fx' = <<"call:addToCart", "toast:Invalid product data",
                     "throw:Invalid product data">>
          /\ UNCHANGED <<user, items, loaded, pending, dirty, lsCart, lsCache,
                         lsTs, lsEtag, net, timers, pendingRequests, server>>]_vars

C10_Witness ==
  /\ fx = <<"call:addToCart", "toast:Invalid product data", "throw:Invalid product data">>
  /\ user # NoUser

\* C11: addToCart with a quantity that is not an integer >= 1 raises a
\* validation error at once; the formula states what that leaves untouched:
\* no optimistic update or other dispatch, no request, no write of the guest
\* cart.
C11_InvalidQuantityRejected ==
  [][\A p \in Products, q \in AddQtyInputs :
       (AddToCart(ValidProduct(p), q) /\ q < 1) =>
          /\ UNCHANGED <<items, pending, lsCart, net>>
          /\ ~Occurs(fx', "dispatch:addToCartOptimistic")
          /\ ~Occurs(fx', "dispatch:addToCart")
          /\ ~Occurs(fx', "dispatch:loadFromLocalStorage")
          /\ ~Occurs(fx', "ls:set:cart")]_vars

PositiveQuantities(cart) == \A i \in 1..Len(cart) : cart[i].quantity >= 1

\* C12: in a guest session every item of the cart, in memory and in the guest
\* store, has a quantity that is a positive integer.
C12_GuestQuantitiesPositive ==
  user = NoUser =>
     /\ PositiveQuantities(items)
     /\ PositiveQuantities(ParsedCart(lsCart))

\* C13: no response to a cart request (GET cart, GET count) is stored in any
\* cache partition, and no cart request is answered from a cache.
C13_CartNeverCached ==
  /\ \A c \in DOMAIN sw.caches : \A e \in sw.caches[c] : e.url \notin CartUrls
  /\ sw.reply.url \in CartUrls => sw.reply.source # "cache"

\* the stored cache envelope of a cart
Envelope(cart) == Some(JSONstringify([items |-> cart, cartCount |-> cartCount(cart)]))

\* the last step was an authenticated mutation that changed the items
MutationLanded ==
  /\ user # NoUser
  /\ "items" \in dirty
  /\ \E e \in {"dispatch:addToCartOptimistic", "dispatch:updateQuantityOptimistic",
               "dispatch:removeFromCartOptimistic", "fulfilled:POST", "fulfilled:PUT",
               "fulfilled:DELETE", "fulfilled:CLEAR"} : Occurs(fx, e)

\* C14: once the effects that follow an authenticated mutation have run, the
\* cache envelope in local persistence is the one written for the resulting
\* cart: it holds the resulting items and count, with the time of that write
\* as its timestamp. No envelope of an earlier cart is left stored.
C14_EnvelopeFollowsMutation ==
  [][(MutationLanded /\ Render /\ lsCache' # None) =>
       /\ lsCache' = Envelope(items)
       /\ lsTs' = Some(NumToString(now))]_vars

\* a conditional GET in flight that the server answers "not modified"
NotModifiedGets == {r \in InFlight("GET") : NotModified(Cur, r)}

\* C15: a "not modified" answer with a cache envelope stored makes getCart
\* return the stored envelope: no error is raised, and the cart the fetch is
\* fulfilled with is the envelope's.
C15_NotModifiedReturnsEnvelope ==
  [][\A r \in NotModifiedGets :
       (RespondOk(r) /\ lsCache # None /\ JSONok(lsCache[1])) =>
          /\ Occurs(fx', "gateway:return:cached")
          /\ Occurs(fx', "fulfilled:GET")
          /\ ~Occurs(fx', "rejected:GET")
          /\ items' = JSONparse(lsCache[1]).items
          /\ lsCache' = lsCache]_vars

C15_Witness ==
  /\ Occurs(fx, "gateway:return:cached")
  /\ Occurs(fx, "fulfilled:GET")
  /\ items = CartA
  /\ lsCache = Envelope(CartA)

\* C16: a "not modified" answer is never an error: getCart returns cached
\* data whatever local persistence holds at that time.
C16_NotModifiedNeverThrows ==
  [][\A r \in NotModifiedGets :
       RespondOk(r) =>
          /\ Occurs(fx', "gateway:return:cached")
          /\ ~Occurs(fx', "rejected:GET")]_vars

\* C17: the guest clearCart removes the guest cart, cache and timestamp keys,
\* leaves the cart in memory empty and sends nothing; the effects that run
\* afterwards leave the cart empty, in memory and in the guest store.
C17_GuestClearRemovesAll ==
  [][/\ GuestClear =>
          /\ lsCart' = None /\ lsCache' = None /\ lsTs' = None
          /\ items' = <<>>
          /\ net' = net /\ timers' = timers
          /\ Before(fx', "ls:remove:cart", "dispatch:loadFromLocalStorage")
     /\ (Render /\ user = NoUser /\ Occurs(fx, "call:clearCart")) =>
          /\ items' = <<>>
          /\ lsCart' = None /\ lsCache' = None /\ lsTs' = None
          /\ net' = net]_vars

\* a guest who had a cart and a leftover envelope has cleared the cart, and
\* the effects have run
C17_Witness ==
  /\ user = NoUser
  /\ Quiet
  /\ nops > 0
  /\ items = <<>>
  /\ lsCart = None /\ lsCache = None /\ lsTs = None
  /\ lsEtag # None

\* C18: a local-persistence key that cannot be read or parsed is treated as
\* absent (empty guest cart, no envelope); the failure never leaves
\* reconciliation, a cart operation or getCart as an exception.
C18_ParseFailureRecovered ==
  /\ ~Occurs(fx, "gateway:throw:SyntaxError")
  /\ ~Occurs(fx, "throw:SyntaxError")

\* what the claim expects the gateway to throw for an error answer
ExpectedMessage(op, resp) ==
  IF resp.status = 401
  THEN CASE op = "GET" -> "Please login to view cart"
         [] op = "POST" -> "Please login to add items to cart"
         [] op = "PUT" -> "Please login to update cart"
         [] op = "DELETE" -> "Please login to modify cart"
         [] op = "CLEAR" -> "Please login to clear cart"
  ELSE IF resp.error # None THEN resp.error[1]
  ELSE CASE op = "GET" -> "Failed to fetch cart"
         [] op = "POST" -> "Failed to add item to cart"
         [] op = "PUT" -> "Failed to update quantity"
         [] op = "DELETE" -> "Failed to remove item from cart"
         [] op = "CLEAR" -> "Failed to clear cart"

\* C19: a gateway call answered with an error throws the "Please login"
\* message of its operation on a 401, else the server's error text when there
\* is one, else the operation's "Failed to" message; the request is not sent
\* again.
C19_GatewayErrorMapping ==
  [][\A r \in net, resp \in ErrorResponses :
       (r.op \in GatewayOps /\ RespondError(r, resp)) =>
          /\ Occurs(fx', "gateway:throw:" \o ExpectedMessage(r.op, resp))
          /\ ~Occurs(fx', "gateway:return")
          /\ net' = net \ {r}
          /\ timers' = timers]_vars

C19_Witness ==
  /\ Occurs(fx, "gateway:throw:Please login to update cart")
  /\ Occurs(fx, "rejected:PUT")
  /\ net = {}

\* C20: for an array, cartCount is the sum of the quantities of the non-null
\* items, a missing quantity counting as 0, whatever the server-reported count
\* is; the server-reported count is the result only when the summation throws.
RECURSIVE SumOfQuantities(_)
SumOfQuantities(list) ==
  IF list = <<>> THEN 0
  ELSE (IF Head(list) \in {NullItem, NoQuantityItem} THEN 0 ELSE Head(list).quantity)
       + SumOfQuantities(Tail(list))

C20_CountIsSumOfQuantities ==
  (count.result # None /\ count.cartItems.isArray) =>
     IF ThrowingItem \in {count.cartItems.list[i] : i \in 1..Len(count.cartItems.list)}
     THEN count.result[1] = count.backendCartCount
     ELSE count.result[1] = SumOfQuantities(count.cartItems.list)

\* a list with a null item, an item without quantity and two quantities, and
\* a server-reported count that differs from the sum
C20_Witness ==
  /\ count.result = Some(3)
  /\ count.backendCartCount = 1
  /\ NullItem \in {count.cartItems.list[i] : i \in 1..Len(count.cartItems.list)}
  /\ Len(count.cartItems.list) = 3

\* C21: a failed fetch of an asset during install, in whichever partition, is
\* recovered: the install promise is fulfilled and skipWaiting is reached.
C21_InstallNeverFails ==
  (sw.log # <<>> /\ sw.log[1] = "install") =>
     /\ sw.phase = "installed"
     /\ sw.log = <<"install", "skipWaiting">>

\* C22: after a successful install, whatever activate, fetch and message
\* events follow, the primary partition holds the offline page, and a
\* navigation whose fetch fails is answered with it.
C22_OfflinePageAvailable ==
  /\ [](sw.phase \in {"installed", "activated"} =>
          cacheMatch(sw.caches, CACHE_NAME, OFFLINE_URL) # None)
  /\ [][\A req \in SWRequests :
          (req.mode = "navigate" /\ SWFetch(req, [ok |-> FALSE, status |-> 0])) =>
             /\ sw'.reply.source = "offline"
             /\ sw'.reply.status = 200
             /\ sw'.reply.url = req.url]_vars

\* a navigation has failed and was answered with the offline page, after a
\* partition of an earlier version was deleted
C22_Witness ==
  /\ sw.phase = "activated"
  /\ sw.reply.source = "offline"
  /\ sw.log = <<"fetch">>
  /\ OLD_CACHE \notin DOMAIN sw.caches

\* C23: activation deletes every partition that is not one of the three
\* current ones, keeps those three with their contents, and claims the open
\* pages after the deletions.
C23_ActivateDeletesOldThenClaims ==
  [][SWActivate =>
       LET current == {"la-patisserie-v2", "header-components-v1", "ui-components-v1"}
           f == sw'.log
       IN /\ DOMAIN sw'.caches = DOMAIN sw.caches \cap current
          /\ \A c \in DOMAIN sw'.caches : sw'.caches[c] = sw.caches[c]
          /\ \A c \in DOMAIN sw.caches \ current : Occurs(f, "delete:" \o c)
          /\ f[Len(f)] = "claim"
          /\ \A i \in 1..Len(f) : f[i] = "claim" => i = Len(f)]_vars

\* the worker is active, the partition of the earlier version was deleted
\* before the claim and the current partitions hold what install stored
C23_Witness ==
  /\ sw.phase = "activated"
  /\ sw.log = <<"activate", "delete:la-patisserie-v1", "claim">>
  /\ DOMAIN sw.caches = validCaches
  /\ cacheMatch(sw.caches, CACHE_NAME, OFFLINE_URL) # None

\* the hint as the resolver reads it: trimmed, in lower case
Normalized(value) == ToLowerCase(Trim(value.chars))

\* the hint says "no egg" in one of the ways the resolver knows
EggNegative(n) ==
  \/ n \in {<<"f", "a", "l", "s", "e">>, <<"n", "o">>, <<"n">>, <<"0">>}
  \/ \E pat \in {<<"e", "g", "g", "l", "e", "s", "s">>,
                 <<"n", "o", " ", "e", "g", "g">>,
                 <<"e", "g", "g", " ", "f", "r", "e", "e">>,
                 <<"e", "g", "g", "-", "f", "r", "e", "e">>,
                 <<"w", "i", "t", "h", "o", "u", "t", " ", "e", "g", "g">>,
                 <<"p", "u", "r", "e", " ", "v", "e", "g">>,
                 <<"v", "e", "g", " ", "o", "n", "l", "y">>} :
       StrIncludes(n, pat)

\* C24: a string hint that, trimmed and in lower case, contains "eggless" or
\* "no egg" resolves to false, also when an egg-positive phrase is in it; one
\* that contains "egg" and no egg-negative pattern resolves to true; an absent,
\* empty or whitespace-only hint resolves to null.
C24_EggHintResolution ==
  egg.done =>
     /\ egg.value.kind = "string" =>
          LET n == Normalized(egg.value)
          IN /\ (StrIncludes(n, <<"e", "g", "g", "l", "e", "s", "s">>) \/ StrIncludes(n, <<"n", "o", " ", "e", "g", "g">>))
                  => egg.result = Some(FALSE)
             /\ (StrIncludes(n, <<"e", "g", "g">>) /\ ~EggNegative(n)) => egg.result = Some(TRUE)
             /\ n = <<>> => egg.result = None
     /\ egg.value.kind \in {"undefined", "null"} => egg.result = None

\* "with eggless": an egg-positive phrase and "eggless" in one hint
C24_Witness ==
  /\ egg.done
  /\ egg.value = Str(<<"w", "i", "t", "h", " ", "e", "g", "g", "l", "e", "s", "s">>)
  /\ egg.result = Some(FALSE)

\* e1 and e2 both occur in f, e1 first
Then(f, e1, e2) == Occurs(f, e2) /\ Before(f, e1, e2)

\* C25: the authenticated addToCart, updateQuantity and removeFromCart
\* dispatch the optimistic update before the network action; when the network
\* action is rejected the operation shows a notification and throws the error
\* to its caller, it does not return.
C25_OptimisticThenRethrow ==
  [][/\ \A p \in Products, q \in AddQtyInputs :
          (user # NoUser /\ AddToCart(ValidProduct(p), q)) =>
             /\ Then(fx', "dispatch:addToCartOptimistic", "dispatch:addToCart")
             /\ Then(fx', "dispatch:addToCart", "net:POST")
     /\ \A p \in Products, q \in QtyInputs :
          (user # NoUser /\ UpdateQuantity(p, q)) =>
             Then(fx', "dispatch:updateQuantityOptimistic", "dispatch:updateCartQuantity")
     /\ \A p \in Products :
          (user # NoUser /\ RemoveFromCart(p) /\ ~Occurs(fx', "return:remove already in progress")) =>
             /\ Then(fx', "dispatch:removeFromCartOptimistic", "dispatch:removeFromCart")
             /\ Then(fx', "dispatch:removeFromCart", "net:DELETE")
     /\ \A r \in net, resp \in ErrorResponses :
          (r.op \in {"POST", "PUT", "DELETE"} /\ RespondError(r, resp)) =>
             /\ Then(fx', "rejected:" \o r.op, "toast:" \o ExpectedMessage(r.op, resp))
             /\ fx'[Len(fx')] = "throw:" \o ExpectedMessage(r.op, resp)
             /\ ~Occurs(fx', "return:" \o r.op)]_vars

\* the DELETE of an authenticated removal was rejected: the item is gone from
\* the cart in memory, the notification was shown and the error thrown
C25_Witness ==
  /\ user # NoUser
  /\ Occurs(fx, "rejected:DELETE")
  /\ Occurs(fx, "toast:Failed to remove item from cart")
  /\ fx[Len(fx)] = "throw:Failed to remove item from cart"
  /\ ~Has(items, "A")
  /\ server["A"] > 0

\* the variant the product is resolved for: the one at the index when there
\* is one, else the product's selectedVariant
SelectedVariant(v) ==
  IF /\ v.variantIndex.kind = "number"
     /\ v.product.variants.isArray
     /\ v.variantIndex.n < Len(v.product.variants.list)
  THEN v.product.variants.list[v.variantIndex.n + 1]
  ELSE v.product.selectedVariant

\* the answers of the three stages, in the order of the resolution
Stages(v) ==
  <<inferEggFlag(SelectedVariant(v)), inferEggFlag(v.product),
    inferEggFlag(v.product.productDetails)>>

\* C26: resolveEggFlag returns the answer of the first decisive stage, in the
\* order selected variant (its boolean flag before its hints), product,
\* product details; no later stage overrides it, and the result is null
\* exactly when no stage is decisive.
C26_FirstDecisiveStageWins ==
  (egg.done /\ ~egg.value.product.absent) =>
     LET stages == Stages(egg.value)
         sel == SelectedVariant(egg.value)
     IN /\ \A i \in 1..3 :
             (stages[i] # None /\ \A j \in 1..(i - 1) : stages[j] = None)
                => egg.result = stages[i]
        /\ egg.result = None <=> \A i \in 1..3 : stages[i] = None
        /\ (~sel.absent /\ Get(sel, "hasEgg").kind = "boolean")
              => egg.result = Some(Get(sel, "hasEgg").b)

\* the variant at the index says no egg by its flag, a hint of it and the
\* product say egg
C26_Witness ==
  /\ egg.done
  /\ egg.value.variantIndex = Num(1)
  /\ Len(egg.value.product.variants.list) = 2
  /\ egg.value.product.variants.list[2] =
       Source(("hasEgg" :> Bool(FALSE)) @@ ("importantField.value" :> WithEgg))
  /\ Get(egg.value.product, "hasEgg") = Bool(TRUE)
  /\ egg.result = Some(FALSE)

\* the values the index is looked for in, in the order of the resolution
IndexSources(v) ==
  <<v.variantIndex, Get(v.product, "productDetails.variantIndex"),
    Get(v.product, "selectedVariantIndex")>>

\* the index addToCart passed on: in the payload of the network action, or in
\* the productDetails of the guest entry
PassedIndex(v) ==
  IF v.user # NoUser THEN v.sent[1].variantIndex ELSE v.stored[1]["variantIndex"]

\* C27: the variant index of addToCart is the first integer among the index
\* supplied, the one in the product's productDetails and the product's
\* selectedVariantIndex, and 0 when none is an integer; that index is sent with
\* the network action and stored in the guest entry.
C27_VariantIndexResolution ==
  variant.done =>
     LET src == IndexSources(variant)
     IN /\ \A i \in 1..3 :
             (src[i].kind = "number" /\ \A j \in 1..(i - 1) : src[j].kind # "number")
                => PassedIndex(variant) = src[i]
        /\ (\A i \in 1..3 : src[i].kind # "number") => PassedIndex(variant) = Num(0)
        /\ variant.user # NoUser <=> variant.sent # None
        /\ variant.user = NoUser <=> variant.stored # None

\* a guest adds a product that is in the cart with index 0: no index is
\* supplied, productDetails names 2 and selectedVariantIndex 1, and 2 is stored
C27_Witness ==
  /\ variant.done
  /\ variant.user = NoUser
  /\ variant.variantIndex = Undefined
  /\ Get(variant.product, "productDetails.variantIndex") = Num(2)
  /\ Get(variant.product, "selectedVariantIndex") = Num(1)
  /\ variant.entry = Source("variantIndex" :> Num(0))
  /\ variant.stored[1]["variantIndex"] = Num(2)

\* the promise CartService.updateQuantity returned for call c is settled: the
\* timer callback of the call ran and its request was answered
Settled(c) == calls[c].executed > 0 /\ PutsOf(c) = {}

\* C28: every authenticated updateQuantity call eventually settles, a call
\* superseded by a later one for the same product included.
C28_EveryCallSettles ==
  \A c \in 1..(MaxCalls + 1) : [](c \in CallIds => <>(c \in CallIds /\ Settled(c)))

\* C29: no guest item is lost at login: while a user is logged in, the items
\* of the guest cart leave guest-local storage only in a step in which the
\* server accepts them, as the successful answer to the merge or sync request
\* that carries them.
C29_NoGuestItemLost ==
  [][(user # NoUser /\ Len(ParsedCart(lsCart)) > 0 /\ lsCart' # lsCart) =>
       \E r \in net \ net' :
         /\ r.op \in {"MERGE", "SYNC"}
         /\ r.items = ParsedCart(lsCart)
         /\ Occurs(fx', "fulfilled:" \o r.op)
         /\ server' = MergeInto(server, r.items)]_vars

\* C30: the items of the authenticated cart are never written to the guest
\* cart key: a product enters guest-local storage only in a step in which an
\* unauthenticated visitor adds it.
C30_GuestStoreHoldsGuestItemsOnly ==
  [][\A p \in Products :
       (Has(ParsedCart(lsCart'), p) /\ ~Has(ParsedCart(lsCart), p)) =>
          /\ user = NoUser
          /\ Occurs(fx', "call:addToCart")]_vars

\* C31: the reconciliation of a login never adopts a cache envelope that was
\* written in the session of another user.
C31_NoForeignEnvelopeAdopted ==
  [][Occurs(fx', "dispatch:loadFromCache") => cacheOwner = user']_vars

\* the requests that submit a guest cart to the server
Submissions(requests) == {r \in requests : r.op \in {"MERGE", "SYNC"}}

\* C32: the guest cart is submitted at most once per login: while a merge or
\* sync of the guest items stays in flight, no step dispatches another
\* mergeGuestCart or syncLocalCart with the same items.
C32_GuestCartSubmittedOnce ==
  [][\A r \in Submissions(net \cap net') :
       \A n \in Submissions(net' \ net) : n.items # r.items]_vars

\* C33: when getCart answers a "not modified" response from local persistence
\* the payload it returns is the server's current cart: the stored ETag and
\* the stored envelope describe the same version of the cart.
C33_NotModifiedPayloadIsCurrent ==
  [][\A r \in NotModifiedGets :
       (RespondOk(r) /\ Occurs(fx', "gateway:return:cached")) =>
          items' = ServerItems(server)]_vars

====
